---- MODULE Spec2Model ----
(***************************************************************************)
(* Verification model of dshawul/solver:                                   *)
(*   src/field/dg.h           DG index macros, DPSI, DG::expand            *)
(*   src/turbulence/turbulence.h   eddy viscosity models, wall functions   *)
(*                                                                         *)
(* Five specifications share the variables below; each one drives one      *)
(* part of the program and leaves the other parts at rest:                 *)
(*   Spec       DG::expand, statement by statement, called up to MaxCalls  *)
(*              times on the same field                                    *)
(*   SpecPar    the body of DG::expand's outer loop run per element in an  *)
(*              arbitrary interleaving                                     *)
(*   SpecIndex  the forEachLgl loop nest evaluating INDEX3 / INDEX4        *)
(*   SpecDpsi   the DPSI macro inside a basis x node loop nest             *)
(*   SpecTurb   EddyViscosity_Model::addTurbulentStress for a KX_Model     *)
(***************************************************************************)
EXTENDS Integers, Sequences, FiniteSets, TLC

(***************************************************************************)
(* Bounds of the model.                                                    *)
(***************************************************************************)
MaxElems == 3
MaxBlock == 3
MaxVal == 1
MaxCalls == 2
MaxNP == 3
MaxComp == 2
MaxBC == 2
MaxFaces == 2

Range(s) == {s[n] : n \in DOMAIN s}

(***************************************************************************)
(* State.                                                                  *)
(***************************************************************************)
VARIABLES
    (* ---- DG::expand ---- *)
    NPMAT,      \* DG::NPMAT tested as a truth value
    entity,     \* template parameter: "CELL" or "FACET"
    NP,         \* nodes per cell
    NPF,        \* nodes per facet
    cF,         \* the field's storage, indices 0 .. size-1
    pc,         \* position inside expand
    i,          \* int i   of the outer loop
    ii,         \* Int ii
    C,          \* type C
    j,          \* Int j   of the inner loop
    block,      \* Int block
    calls,      \* completed calls of expand on this field
    \* history of the run (not program state)
    v0,         \* storage at the first call: v0[e] is element e's value
    nElems,     \* number of elements (cells or facets) of the field
    before,     \* storage when the current call was entered
    once,       \* storage when the first call returned
    rlog,       \* indices read by the current call, in order
    wlog,       \* <<element, index>> written by the current call, in order
    iters,      \* outer-loop iterations completed by the current call
    (* ---- per-element expansion steps run in any interleaving ---- *)
    pF,         \* the field's storage
    ppc,        \* per element: "idle", "write", "done"
    pC,         \* per element: the value read
    pj,         \* per element: inner loop counter
    plog,       \* the accesses made so far: <<element, "r" or "w", index>>
    stale       \* per element: TRUE if its source index had been written
                \* by another element's step before it was read

    ,
    (* ---- the order triple, INDEX3 / INDEX4 under forEachLgl ---- *)
    NPX, NPY, NPZ,  \* DG::NPX, DG::NPY, DG::NPZ
    NComp,      \* number of values of the leading index c_ of INDEX4
    comp,       \* the leading index the loop nest runs for
    li, lj, lk, \* Int i_, j_, k_ of forEachLgl
    ipc,        \* position inside the loop nest
    vis3,       \* values of INDEX3 in the order the loop body saw them
    vis4,       \* values of INDEX4 in the order the loop body saw them
    (* ---- DPSI ---- *)
    psi,        \* DG::psi[dir][basis][node]
    dpsi,       \* DG::dpsi[dir][basis][node]
    bas,        \* <<ii, jj, kk>> of the last DPSI expansion
    nod,        \* <<i, j, k>> of the last DPSI expansion
    dpsi_j,     \* Vector dpsi_j of the last DPSI expansion
    dpc,        \* "start", or "done" once DPSI has been expanded
    (* ---- EddyViscosity_Model::addTurbulentStress on a KX_Model ---- *)
    AllBConditions, \* Mesh::AllBConditions: records isWall, fIndex, bdry
    gFO,        \* Mesh::gFO: the owner cell of each face
    UfIndex,    \* U.fIndex
    wallModel,  \* "NONE", "STANDARD" or "LAUNDER"
    eddy_mu,    \* ScalarCellField eddy_mu
    Pk,         \* ScalarCellField Pk
    kF,         \* ScalarCellField k
    xF,         \* ScalarCellField x
    eff_mu,     \* ScalarCellField eff_mu
    M,          \* the terms subtracted from the matrix M, in order
    tpc,        \* position inside addTurbulentStress
    dBC,        \* Int d, the index into AllBConditions
    wi,         \* Int i, the index into wall_faces
    wcalls      \* the calls of applyWallFunction so far: <<d, i, f>>

expandVars == <<NPMAT, entity, NP, NPF, cF, pc, i, ii, C, j, block, calls,
                v0, nElems, before, once, rlog, wlog, iters>>
parVars == <<pF, ppc, pC, pj, plog, stale>>

orderVars == <<NPX, NPY, NPZ>>
indexVars == <<NComp, comp, li, lj, lk, ipc, vis3, vis4>>
dpsiVars == <<psi, dpsi, bas, nod, dpsi_j, dpc>>

turbVars == <<AllBConditions, gFO, UfIndex, wallModel, eddy_mu, Pk, kF, xF,
              eff_mu, M, tpc, dBC, wi, wcalls>>

vars == <<expandVars, parVars, orderVars, indexVars, dpsiVars, turbVars>>

(* the variables each part leaves alone *)
notExpand == <<parVars, orderVars, indexVars, dpsiVars, turbVars>>
notPar == <<expandVars, orderVars, indexVars, dpsiVars, turbVars>>
notIndex == <<expandVars, parVars, orderVars, dpsiVars, turbVars>>
notDpsi == <<expandVars, parVars, orderVars, indexVars, turbVars>>
notTurb == <<expandVars, parVars, orderVars, indexVars, dpsiVars>>

Vals == 0 .. MaxVal

(* content of storage that was never assigned a representative value *)
Junk == -1

(***************************************************************************)
(* DG::expand  (dg.h 55-71)                                                *)
(***************************************************************************)

(* dg.h 59-62: block = NP for cells, NPF for facets *)
BlockOf(ent, np, npf) == IF ent = "CELL" THEN np ELSE npf

(* The loop variables are 32-bit: "int i", "Int block", "Int ii", "Int j". *)
(* A 32-bit pattern is denoted here by the int that has the same bits, so  *)
(* the conversions between int and Int leave the denotation alone, the     *)
(* subtractions below are exact for |x| < 2^31, and a negative denotation  *)
(* read as an Int index stands for an index >= 2^31, outside any storage.  *)

(* dg.h 64: int i = cF.size() - 1     (size 0 gives the bits of -1) *)
(* MutStartI: the faulty variant that starts one past the last index       *)
MutStartI(size) == size
StartI(size) == size - 1

(* dg.h 64: i -= block *)
(* MutNextI: the faulty variant that steps by one node instead of a block  *)
MutNextI(ival, blk) == ival - 1
NextI(ival, blk) == ival - blk

(* dg.h 65: Int ii = i / block     (evaluated only after the test i >= 0) *)
(* MutSourceIndex: the faulty variant that forgets the division            *)
MutSourceIndex(ival, blk) == ival
SourceIndex(ival, blk) == ival \div blk

(* dg.h 68: the index i - j *)
(* MutDestIndex: the faulty variant that is off by one                     *)
MutDestIndex(ival, jval) == ival - jval - 1
DestIndex(ival, jval) == ival - jval

Size == nElems * BlockOf(entity, NP, NPF)

(* storage of a field of n elements with b nodes each, before expansion:   *)
(* the representative values packed at 0 .. n-1                            *)
Packed(vals, n, b) ==
    [n2 \in 0 .. (n * b - 1) |-> IF n2 < n THEN vals[n2] ELSE Junk]

ExpandIdle ==
    /\ NPMAT = FALSE /\ entity = "CELL" /\ NP = 1 /\ NPF = 1
    /\ cF = <<>> /\ pc = "off" /\ i = 0 /\ ii = 0 /\ C = Junk /\ j = 0
    /\ block = 0 /\ calls = 0 /\ v0 = <<>> /\ nElems = 0
    /\ before = <<>> /\ once = <<>>
    /\ rlog = <<>> /\ wlog = <<>> /\ iters = 0

ParIdle ==
    /\ pF = <<>> /\ ppc = <<>> /\ pC = <<>> /\ pj = <<>> /\ plog = {}
    /\ stale = <<>>

IndexIdle ==
    /\ NComp = 1 /\ comp = 0 /\ li = 0 /\ lj = 0 /\ lk = 0 /\ ipc = "off"
    /\ vis3 = <<>> /\ vis4 = <<>>

DpsiIdle ==
    /\ psi = <<>> /\ dpsi = <<>> /\ bas = <<>> /\ nod = <<>>
    /\ dpsi_j = <<>> /\ dpc = "off"

OrderIdle == NPX = 1 /\ NPY = 1 /\ NPZ = 1

TurbIdle ==
    /\ AllBConditions = <<>> /\ gFO = <<>> /\ UfIndex = 0
    /\ wallModel = "NONE" /\ eddy_mu = <<>> /\ Pk = <<>> /\ kF = <<>>
    /\ xF = <<>> /\ eff_mu = <<>> /\ M = <<>> /\ tpc = "off" /\ dBC = 0
    /\ wi = 0 /\ wcalls = <<>>

(* a field with one value per element, sized for the configured order *)
InitField ==
    /\ NPMAT \in BOOLEAN
    /\ entity \in {"CELL", "FACET"}
    /\ NP \in 1 .. MaxBlock
    /\ NPF \in 1 .. NP
    /\ nElems \in 0 .. MaxElems
    /\ v0 \in [0 .. (nElems - 1) -> Vals]

InitExpand ==
    /\ InitField
    /\ cF = Packed(v0, nElems, BlockOf(entity, NP, NPF))
    /\ pc = "idle" /\ i = 0 /\ ii = 0 /\ C = Junk /\ j = 0 /\ block = 0
    /\ calls = 0 /\ before = cF /\ once = <<>>
    /\ rlog = <<>> /\ wlog = <<>> /\ iters = 0

(* dg.h 56-64: entry, the NPMAT guard, the choice of block, the loop's init *)
ExpandEnter ==
    /\ pc = "idle"
    /\ calls < MaxCalls
    /\ rlog' = <<>> /\ wlog' = <<>> /\ iters' = 0 /\ before' = cF
    /\ IF NPMAT
         THEN /\ block' = BlockOf(entity, NP, NPF)
              /\ i' = StartI(Cardinality(DOMAIN cF))
              /\ pc' = "test"
         ELSE /\ pc' = "ret"
              /\ UNCHANGED <<block, i>>
    /\ UNCHANGED <<NPMAT, entity, NP, NPF, cF, ii, C, j, calls, v0, nElems,
                   once>>
    /\ UNCHANGED notExpand

(* dg.h 64: i >= 0 *)
LoopTest ==
    /\ pc = "test"
    /\ pc' = IF i >= 0 THEN "read" ELSE "ret"
    /\ UNCHANGED <<NPMAT, entity, NP, NPF, cF, i, ii, C, j, block, calls,
                   v0, nElems, before, once, rlog, wlog, iters>>
    /\ UNCHANGED notExpand

(* dg.h 65-67: ii = i / block; C = cF[ii]; j = 0.  A read outside the      *)
(* storage is undefined: any value may come back.                          *)
ReadSource ==
    /\ pc = "read"
    /\ ii' = SourceIndex(i, block)
    /\ IF ii' \in DOMAIN cF
         THEN C' = cF[ii']
         ELSE C' \in Vals \cup {Junk}
    /\ rlog' = Append(rlog, ii')
    /\ j' = 0
    /\ pc' = "write"
    /\ UNCHANGED <<NPMAT, entity, NP, NPF, cF, i, block, calls,
                   v0, nElems, before, once, wlog, iters>>
    /\ UNCHANGED notExpand

(* dg.h 67-68: j < block; cF[i - j] = C; j++.  A write outside the storage *)
(* is undefined: it is logged and leaves the storage alone or stops the    *)
(* program.                                                                *)
WriteNode ==
    /\ pc = "write"
    /\ j < block
    /\ LET d == DestIndex(i, j) IN
         /\ wlog' = Append(wlog, <<ii, d>>)
         /\ IF d \in DOMAIN cF
              THEN /\ cF' = [cF EXCEPT ![d] = C]
                   /\ pc' = "write"
              ELSE /\ cF' = cF
                   /\ pc' \in {"write", "trap"}
    /\ j' = j + 1
    /\ UNCHANGED <<NPMAT, entity, NP, NPF, i, ii, C, block, calls,
                   v0, nElems, before, once, rlog, iters>>
    /\ UNCHANGED notExpand

(* dg.h 67, 64: the inner loop exits (j == block); i -= block *)
NextElement ==
    /\ pc = "write"
    /\ ~(j < block)
    /\ i' = NextI(i, block)
    /\ iters' = iters + 1
    /\ pc' = "test"
    /\ UNCHANGED <<NPMAT, entity, NP, NPF, cF, ii, C, j, block, calls,
                   v0, nElems, before, once, rlog, wlog>>
    /\ UNCHANGED notExpand

(* dg.h 71: return to the caller *)
ExpandReturn ==
    /\ pc = "ret"
    /\ calls' = calls + 1
    /\ once' = IF calls = 0 THEN cF ELSE once
    /\ pc' = "idle"
    /\ UNCHANGED <<NPMAT, entity, NP, NPF, cF, i, ii, C, j, block,
                   v0, nElems, before, rlog, wlog, iters>>
    /\ UNCHANGED notExpand

(***************************************************************************)
(* The body of expand's outer loop (dg.h 65-68), one step per element, the *)
(* steps of different elements interleaved statement by statement.         *)
(***************************************************************************)

(* the value of i in the outer-loop iteration number k = 0, 1, ...         *)
RECURSIVE IterI(_, _, _)
IterI(k, size, blk) ==
    IF k = 0 THEN StartI(size) ELSE NextI(IterI(k - 1, size, blk), blk)

(* the value of i in the iteration that expands element e *)
ElemI(e) == IterI(nElems - 1 - e, Size, BlockOf(entity, NP, NPF))

Elems == 0 .. (nElems - 1)

(* the steps only copy values, so one field whose elements hold pairwise   *)
(* different values (element e holds e) stands for every assignment        *)
InitPar ==
    /\ NPMAT = TRUE
    /\ entity \in {"CELL", "FACET"}
    /\ NP \in 1 .. MaxBlock
    /\ NPF \in 1 .. NP
    /\ nElems \in 0 .. MaxElems
    /\ v0 = [e \in 0 .. (nElems - 1) |-> e]
    /\ cF = <<>> /\ pc = "off" /\ i = 0 /\ ii = 0 /\ C = Junk /\ j = 0
    /\ block = BlockOf(entity, NP, NPF)
    /\ calls = 0 /\ before = <<>> /\ once = <<>>
    /\ rlog = <<>> /\ wlog = <<>> /\ iters = 0
    /\ pF = Packed(v0, nElems, BlockOf(entity, NP, NPF))
    /\ ppc = [e \in Elems |-> "idle"]
    /\ pC = [e \in Elems |-> Junk]
    /\ pj = [e \in Elems |-> 0]
    /\ plog = {}
    /\ stale = [e \in Elems |-> FALSE]
    /\ OrderIdle /\ IndexIdle /\ DpsiIdle /\ TurbIdle

(* dg.h 65-67 for element e: ii = i / block; C = cF[ii]; j = 0 *)
ParRead(e) ==
    /\ ppc[e] = "idle"
    /\ LET src == SourceIndex(ElemI(e), block) IN
         /\ pC' = [pC EXCEPT ![e] = IF src \in DOMAIN pF THEN pF[src] ELSE Junk]
         /\ plog' = plog \cup {<<e, "r", src>>}
         /\ stale' = [stale EXCEPT ![e] =
                         \E a \in plog : a[1] # e /\ a[2] = "w" /\ a[3] = src]
    /\ pj' = [pj EXCEPT ![e] = 0]
    /\ ppc' = [ppc EXCEPT ![e] = "write"]
    /\ UNCHANGED pF
    /\ UNCHANGED notPar

(* dg.h 67-68 for element e: j < block; cF[i - j] = C; j++ *)
ParWrite(e) ==
    /\ ppc[e] = "write"
    /\ pj[e] < block
    /\ LET d == DestIndex(ElemI(e), pj[e]) IN
         /\ pF' = IF d \in DOMAIN pF THEN [pF EXCEPT ![d] = pC[e]] ELSE pF
         /\ plog' = plog \cup {<<e, "w", d>>}
    /\ pj' = [pj EXCEPT ![e] = pj[e] + 1]
    /\ UNCHANGED <<ppc, pC, stale>>
    /\ UNCHANGED notPar

(* dg.h 67 for element e: the inner loop exits *)
ParDone(e) ==
    /\ ppc[e] = "write"
    /\ ~(pj[e] < block)
    /\ ppc' = [ppc EXCEPT ![e] = "done"]
    /\ UNCHANGED <<pF, pC, pj, plog, stale>>
    /\ UNCHANGED notPar

StepRead == \E e \in Elems : ParRead(e)
StepWrite == \E e \in Elems : ParWrite(e)
StepDone == \E e \in Elems : ParDone(e)

NextPar ==
    \/ StepRead
    \/ StepWrite
    \/ StepDone

SpecPar == InitPar /\ [][NextPar]_vars

(***************************************************************************)
(* INDEX4, INDEX3 and forEachLgl  (dg.h 4-7, 24-28)                         *)
(***************************************************************************)

(* dg.h 24-25 *)
(* MutINDEX4: the faulty variant whose i stride is NPY * NPY               *)
MutINDEX4(c_, i_, j_, k_) == c_ * NPX * NPY * NPZ + i_ * NPY * NPY + j_ * NPZ + k_
INDEX4(c_, i_, j_, k_) == c_ * NPX * NPY * NPZ + i_ * NPY * NPZ + j_ * NPZ + k_

(* dg.h 27-28 *)
(* MutINDEX3: the faulty variant whose j stride is NPY                     *)
MutINDEX3(i_, j_, k_) == i_ * NPY * NPZ + j_ * NPY + k_
INDEX3(i_, j_, k_) == i_ * NPY * NPZ + j_ * NPZ + k_

InitOrder ==
    /\ NPX \in 1 .. MaxNP
    /\ NPY \in 1 .. MaxNP
    /\ NPZ \in 1 .. MaxNP

InitIndex ==
    /\ InitOrder
    /\ NComp \in 1 .. MaxComp
    /\ comp \in 0 .. (NComp - 1)
    /\ li = 0 /\ lj = 0 /\ lk = 0
    /\ ipc = "start"
    /\ vis3 = <<>> /\ vis4 = <<>>
    /\ ExpandIdle /\ ParIdle /\ DpsiIdle /\ TurbIdle

(* dg.h 5: Int i_ = 0 *)
LglEnter ==
    /\ ipc = "start"
    /\ li' = 0
    /\ ipc' = "testI"
    /\ UNCHANGED <<NComp, comp, lj, lk, vis3, vis4>>
    /\ UNCHANGED notIndex

(* dg.h 5-6: i_ < NPX, then Int j_ = 0 *)
LglTestI ==
    /\ ipc = "testI"
    /\ IF li < NPX
         THEN lj' = 0 /\ ipc' = "testJ"
         ELSE lj' = lj /\ ipc' = "end"
    /\ UNCHANGED <<NComp, comp, li, lk, vis3, vis4>>
    /\ UNCHANGED notIndex

(* dg.h 6-7, 5: j_ < NPY, then Int k_ = 0; otherwise i_++ *)
LglTestJ ==
    /\ ipc = "testJ"
    /\ IF lj < NPY
         THEN lk' = 0 /\ li' = li /\ ipc' = "testK"
         ELSE lk' = lk /\ li' = li + 1 /\ ipc' = "testI"
    /\ UNCHANGED <<NComp, comp, lj, vis3, vis4>>
    /\ UNCHANGED notIndex

(* dg.h 7, 6: k_ < NPZ, then the loop body; otherwise j_++ *)
LglTestK ==
    /\ ipc = "testK"
    /\ IF lk < NPZ
         THEN lj' = lj /\ ipc' = "body"
         ELSE lj' = lj + 1 /\ ipc' = "testJ"
    /\ UNCHANGED <<NComp, comp, li, lk, vis3, vis4>>
    /\ UNCHANGED notIndex

(* the loop body evaluates INDEX3(i_,j_,k_) and INDEX4(c_,i_,j_,k_);        *)
(* dg.h 7: k_++                                                            *)
LglBody ==
    /\ ipc = "body"
    /\ vis3' = Append(vis3, INDEX3(li, lj, lk))
    /\ vis4' = Append(vis4, INDEX4(comp, li, lj, lk))
    /\ lk' = lk + 1
    /\ ipc' = "testK"
    /\ UNCHANGED <<NComp, comp, li, lj>>
    /\ UNCHANGED notIndex

NextIndex ==
    \/ LglEnter
    \/ LglTestI
    \/ LglTestJ
    \/ LglTestK
    \/ LglBody

SpecIndex == InitIndex /\ [][NextIndex]_vars

(***************************************************************************)
(* DPSI  (dg.h 30-34)                                                      *)
(***************************************************************************)

(* dg.h 31-34: Vector(dpsi_j_0, dpsi_j_1, dpsi_j_2); ii, jj, kk are the      *)
(* names the macro takes from the place it is expanded at                  *)
(* MutDPSI: the faulty variant whose second component repeats the third    *)
MutDPSI(ii_, jj_, kk_, i_, j_, k_) ==
    << dpsi[0][ii_][i_] *  psi[1][jj_][j_] *  psi[2][kk_][k_],
        psi[0][ii_][i_] *  psi[1][jj_][j_] * dpsi[2][kk_][k_],
        psi[0][ii_][i_] *  psi[1][jj_][j_] * dpsi[2][kk_][k_] >>
DPSI(ii_, jj_, kk_, i_, j_, k_) ==
    << dpsi[0][ii_][i_] *  psi[1][jj_][j_] *  psi[2][kk_][k_],
        psi[0][ii_][i_] * dpsi[1][jj_][j_] *  psi[2][kk_][k_],
        psi[0][ii_][i_] *  psi[1][jj_][j_] * dpsi[2][kk_][k_] >>

(* number of nodes along direction dir; the entries the tables may hold:   *)
(* the cardinal basis at its own nodes, and tables with no zero entry or   *)
(* with pairwise different entries                                         *)
Order(dir) == IF dir = 0 THEN NPX ELSE IF dir = 1 THEN NPY ELSE NPZ

Cardinal(dir, a, b) == IF a = b THEN 1 ELSE 0
Modal(dir, a, b) == 1 + ((a + 2 * b + dir) % 3)
Coded(dir, a, b) == 100 * (dir + 1) + 10 * a + b
Skew(dir, a, b) == (dir + 1) * (a - b)

(* the tables DPSI is given: per direction, one row per basis function and *)
(* one column per node of that direction                                   *)
PsiTable(kind) ==
    [dir \in 0 .. 2 |->
        [a \in 0 .. (Order(dir) - 1) |->
            [b \in 0 .. (Order(dir) - 1) |->
                IF kind = "cardinal" THEN Cardinal(dir, a, b)
                                     ELSE Modal(dir, a, b)]]]

DpsiTable(kind) ==
    [dir \in 0 .. 2 |->
        [a \in 0 .. (Order(dir) - 1) |->
            [b \in 0 .. (Order(dir) - 1) |->
                IF kind = "coded" THEN Coded(dir, a, b)
                                  ELSE Skew(dir, a, b)]]]

InitDpsi ==
    /\ InitOrder
    /\ psi \in {PsiTable("cardinal"), PsiTable("modal")}
    /\ dpsi \in {DpsiTable("coded"), DpsiTable("skew")}
    /\ bas = <<>> /\ nod = <<>> /\ dpsi_j = <<>>
    /\ dpc = "start"
    /\ ExpandIdle /\ ParIdle /\ IndexIdle /\ TurbIdle

(* DPSI(i,j,k) expanded for a basis function (ii,jj,kk) and a node (i,j,k) *)
EvalDPSI ==
    /\ dpc = "start"
    /\ \E ii_ \in 0 .. (NPX - 1), jj_ \in 0 .. (NPY - 1), kk_ \in 0 .. (NPZ - 1),
          i_ \in 0 .. (NPX - 1), j_ \in 0 .. (NPY - 1), k_ \in 0 .. (NPZ - 1) :
         /\ dpsi_j' = DPSI(ii_, jj_, kk_, i_, j_, k_)
         /\ bas' = <<ii_, jj_, kk_>>
         /\ nod' = <<i_, j_, k_>>
    /\ dpc' = "done"
    /\ UNCHANGED <<psi, dpsi>>
    /\ UNCHANGED notDpsi

NextDpsi == EvalDPSI

SpecDpsi == InitDpsi /\ [][NextDpsi]_vars

(***************************************************************************)
(* EddyViscosity_Model::addTurbulentStress, setWallEddyMu and              *)
(* KX_Model::calcEddyViscosity, applyWallFunction  (turbulence.h)          *)
(*                                                                         *)
(* A field value is a term that records the statement that wrote it and    *)
(* the values that statement read.                                         *)
(***************************************************************************)
Faces == 0 .. (MaxFaces - 1)

(* the face lists a boundary condition may hold *)
RECURSIVE Ascending(_)
Ascending(S) ==
    IF S = {} THEN <<>>
    ELSE LET m == CHOOSE y \in S : \A z \in S : y <= z
         IN <<m>> \o Ascending(S \ {m})

BdryLists == {Ascending(S) : S \in SUBSET Faces}

BConditions ==
    [isWall : BOOLEAN, fIndex : {0, 1}, bdry : BdryLists]

(* the boundary faces are owned by the cells 0 .. nc-1 (one cell owns all  *)
(* of them, or each its own); cell nc owns none                            *)
InitTurb ==
    /\ \E n \in 1 .. MaxBC : AllBConditions \in [1 .. n -> BConditions]
    /\ \E nc \in {1, MaxFaces} :
          /\ gFO = [f \in Faces |-> f % nc]
          /\ eddy_mu = [c \in 0 .. nc |-> <<"initial">>]
    /\ Pk = eddy_mu
    /\ kF = eddy_mu
    /\ xF = eddy_mu
    /\ UfIndex = 0
    /\ wallModel \in {"NONE", "STANDARD", "LAUNDER"}
    /\ eff_mu = <<>>
    /\ M = <<>>
    /\ tpc = "start"
    /\ dBC = 1 /\ wi = 1
    /\ wcalls = <<>>
    /\ ExpandIdle /\ ParIdle /\ OrderIdle /\ IndexIdle /\ DpsiIdle

(* turbulence.h 159: the test a boundary condition must pass *)
(* MutIsWallOfU: the faulty variant that forgets the field index           *)
MutIsWallOfU(bbc) == bbc.isWall
IsWallOfU(bbc) == bbc.isWall /\ (bbc.fIndex = UfIndex)

(* turbulence.h 229-236: ustar; with neither STANDARD nor LAUNDER it is    *)
(* read without having been assigned                                       *)
Ustar(c1) ==
    IF wallModel = "STANDARD" THEN <<"getUstar", c1>>
    ELSE IF wallModel = "LAUNDER" THEN <<"Cmu^0.25*sqrt(k)", kF[c1]>>
    ELSE <<"indeterminate">>

(* turbulence.h 123-124, 218-221: gradU = grad(U); calcEddyViscosity:      *)
(* calcEddyMu() assigns eddy_mu, then Pk = getS2(gradU) * eddy_mu          *)
CalcEddyViscosity ==
    /\ tpc = "start"
    /\ eddy_mu' = [c \in DOMAIN eddy_mu |-> <<"calcEddyMu", c>>]
    /\ Pk' = [c \in DOMAIN Pk |-> <<"getS2*eddy_mu", eddy_mu'[c]>>]
    /\ dBC' = 1
    /\ tpc' = "bc"
    /\ UNCHANGED <<AllBConditions, gFO, UfIndex, wallModel, kF, xF, eff_mu, M,
                   wi, wcalls>>
    /\ UNCHANGED notTurb

(* turbulence.h 157-163: the next boundary condition, its test, the size   *)
(* test of its face list                                                   *)
NextBCondition ==
    /\ tpc = "bc"
    /\ IF dBC > Len(AllBConditions)
         THEN tpc' = "eff" /\ UNCHANGED <<dBC, wi>>
         ELSE IF IsWallOfU(AllBConditions[dBC])
                   /\ Len(AllBConditions[dBC].bdry) # 0
                THEN tpc' = "faces" /\ wi' = 1 /\ dBC' = dBC
                ELSE tpc' = "bc" /\ wi' = wi /\ dBC' = dBC + 1
    /\ UNCHANGED <<AllBConditions, gFO, UfIndex, wallModel, eddy_mu, Pk, kF, xF,
                   eff_mu, M, wcalls>>
    /\ UNCHANGED notTurb

(* turbulence.h 163-164, 223-250: applyWallFunction(wall_faces[i], low)   *)
ApplyWallFunction ==
    /\ tpc = "faces"
    /\ wi <= Len(AllBConditions[dBC].bdry)
    /\ LET f == AllBConditions[dBC].bdry[wi]
           c1 == gFO[f]
           ustar == Ustar(c1)
           k1 == IF wallModel = "STANDARD"
                   THEN [kF EXCEPT ![c1] = <<"ustar^2/sqrt(Cmu)", ustar>>]
                   ELSE kF
           mu1 == [eddy_mu EXCEPT ![c1] = <<"wall", f, ustar>>]
       IN /\ kF' = k1
          /\ xF' = [xF EXCEPT ![c1] = <<"calcX", f, ustar>>]
          /\ eddy_mu' = mu1
          /\ Pk' = IF wallModel = "LAUNDER"
                     THEN [Pk EXCEPT ![c1] = <<"wall", f, mu1[c1]>>]
                     ELSE Pk
          /\ wcalls' = Append(wcalls, <<dBC, wi, f>>)
    /\ wi' = wi + 1
    /\ UNCHANGED <<AllBConditions, gFO, UfIndex, wallModel, eff_mu, M, tpc, dBC>>
    /\ UNCHANGED notTurb

(* turbulence.h 163, 157: the face loop ends; on to the next condition *)
WallFacesEnd ==
    /\ tpc = "faces"
    /\ ~(wi <= Len(AllBConditions[dBC].bdry))
    /\ dBC' = dBC + 1
    /\ tpc' = "bc"
    /\ UNCHANGED <<AllBConditions, gFO, UfIndex, wallModel, eddy_mu, Pk, kF, xF,
                   eff_mu, M, wi, wcalls>>
    /\ UNCHANGED notTurb

(* turbulence.h 127: eff_mu = eddy_mu + rho * nu *)
FormEffMu ==
    /\ tpc = "eff"
    /\ eff_mu' = [c \in DOMAIN eddy_mu |-> <<"+rho*nu", eddy_mu[c]>>]
    /\ tpc' = "lap"
    /\ UNCHANGED <<AllBConditions, gFO, UfIndex, wallModel, eddy_mu, Pk, kF, xF,
                   M, dBC, wi, wcalls>>
    /\ UNCHANGED notTurb

(* turbulence.h 128: M -= lap(U, eff_mu) *)
SubtractLap ==
    /\ tpc = "lap"
    /\ M' = Append(M, <<"lap", eff_mu>>)
    /\ tpc' = "div"
    /\ UNCHANGED <<AllBConditions, gFO, UfIndex, wallModel, eddy_mu, Pk, kF, xF,
                   eff_mu, dBC, wi, wcalls>>
    /\ UNCHANGED notTurb

(* turbulence.h 129: M -= div(eddy_mu * dev(trn(gradU),2)) *)
SubtractDiv ==
    /\ tpc = "div"
    /\ M' = Append(M, <<"div", eddy_mu>>)
    /\ tpc' = "done"
    /\ UNCHANGED <<AllBConditions, gFO, UfIndex, wallModel, eddy_mu, Pk, kF, xF,
                   eff_mu, dBC, wi, wcalls>>
    /\ UNCHANGED notTurb

NextTurb ==
    \/ CalcEddyViscosity
    \/ NextBCondition
    \/ ApplyWallFunction
    \/ WallFacesEnd
    \/ FormEffMu
    \/ SubtractLap
    \/ SubtractDiv

SpecTurb == InitTurb /\ [][NextTurb]_vars

Init ==
    /\ InitExpand
    /\ ParIdle /\ OrderIdle /\ IndexIdle /\ DpsiIdle /\ TurbIdle

Next ==
    \/ ExpandEnter
    \/ LoopTest
    \/ ReadSource
    \/ WriteNode
    \/ NextElement
    \/ ExpandReturn

Spec == Init /\ [][Next]_vars

(***************************************************************************)
(* Properties of DG::expand, checked under Spec.                           *)
(***************************************************************************)
B == BlockOf(entity, NP, NPF)

Written == {w[2] : w \in Range(wlog)}

WrittenFor(e) == {w[2] : w \in {x \in Range(wlog) : x[1] = e}}

(* C1: when the first call of expand returns (NPMAT nonzero), the storage  *)
(* has nElems*block entries and every index n holds the original value of  *)
(* element n div block.                                                    *)
C1_ExpandPostcondition ==
    (pc = "ret" /\ calls = 0 /\ NPMAT) =>
        /\ DOMAIN cF = 0 .. (nElems * B - 1)
        /\ \A n \in DOMAIN cF : cF[n] = v0[n \div B]

C1_Witness ==
    /\ pc = "ret" /\ calls = 0 /\ NPMAT
    /\ nElems >= 2 /\ B >= 2
    /\ v0[0] # v0[1]
    /\ Len(wlog) = nElems * B

(* C3 as stated: after two calls in succession the storage equals the      *)
(* storage after one call.                                                 *)
C3_TwiceEqualsOnce ==
    (pc = "idle" /\ calls = 2) => cF = once

(* C3 amended: after two calls (NPMAT nonzero) index n holds the original  *)
(* value of element (n div block) div block, and that equals the storage   *)
(* after one call exactly when v[e] = v[e div block] for every element e;  *)
(* with NPMAT zero both calls leave the storage alone.                     *)
C3_TwiceResult ==
    (pc = "idle" /\ calls = 2) =>
        IF NPMAT
          THEN /\ \A n \in DOMAIN cF : cF[n] = v0[(n \div B) \div B]
               /\ (cF = once) <=> (\A e \in DOMAIN v0 : v0[e] = v0[e \div B])
          ELSE cF = once /\ cF = Packed(v0, nElems, B)

C3_Witness ==
    /\ pc = "idle" /\ calls = 2 /\ NPMAT
    /\ nElems >= 2 /\ B >= 2
    /\ cF # once

(* C4: with a single node per element (NP = 1) a call of expand never      *)
(* changes an entry of the storage, whether the NPMAT guard skips the loop *)
(* or the loop copies every entry onto itself.                             *)
C4_SingleNodeNoOp ==
    (NP = 1 /\ pc # "idle") => cF = before

C4_Witness ==
    /\ NP = 1 /\ pc = "ret" /\ NPMAT
    /\ nElems >= 2 /\ v0[0] # v0[1]
    /\ Len(wlog) = nElems

(* C6: elements are processed from the highest index downward, every       *)
(* destination index of element e is >= e, and when cF[e] has just been    *)
(* read no earlier iteration has written an index <= e, so the value read  *)
(* is the one the storage held when the call was entered.                  *)
C6_AliasingSafe ==
    /\ \A a, b \in DOMAIN rlog : a < b => rlog[a] > rlog[b]
    /\ (rlog # <<>>) => rlog[1] = nElems - 1
    /\ \A w \in Range(wlog) : w[2] >= w[1]
    /\ (pc = "write" /\ j = 0) =>
           /\ \A w \in Range(wlog) : w[2] > ii
           /\ C = before[ii]

C6_Witness ==
    /\ pc = "write" /\ j = 0
    /\ nElems >= 2 /\ block >= 2
    /\ Len(wlog) = 2 * block
    /\ calls = 0 /\ C # Junk

(* C9: the outer loop runs exactly size/block iterations and then exits;   *)
(* every index read or written lies in [0, size); a finished iteration for *)
(* element e has written exactly [e*block, (e+1)*block); no index is       *)
(* written twice.                                                          *)
C9_BoundsAndTermination ==
    /\ pc # "trap"
    /\ \A r \in Range(rlog) : r \in 0 .. (Size - 1)
    /\ Written \subseteq 0 .. (Size - 1)
    /\ Cardinality(Written) = Len(wlog)
    /\ iters <= nElems
    /\ (pc = "test") =>
           /\ (i >= 0) <=> (iters < nElems)
           /\ Len(rlog) = iters
           /\ \A e \in Range(rlog) :
                 WrittenFor(e) = (e * block) .. ((e + 1) * block - 1)
    /\ (pc = "ret" /\ NPMAT) => iters = nElems /\ iters * block = Size

C9_Witness ==
    /\ pc = "ret" /\ NPMAT
    /\ nElems >= 2 /\ block >= 2
    /\ iters = nElems
    /\ Len(wlog) = Size

(* C9 also at size 0: the loop body never runs *)
C9_WitnessEmpty ==
    /\ pc = "ret" /\ NPMAT /\ nElems = 0 /\ iters = 0 /\ wlog = <<>>

(***************************************************************************)
(* Properties of the interleaved per-element steps, checked under SpecPar. *)
(***************************************************************************)
Accessed(e) == {a[3] : a \in {x \in plog : x[1] = e}}

WrittenBy(e) == {a[3] : a \in {x \in plog : x[1] = e /\ x[2] = "w"}}

ReadBy(e) == {a[3] : a \in {x \in plog : x[1] = e /\ x[2] = "r"}}

AllDone == \A e \in Elems : ppc[e] = "done"

Expanded == [n \in 0 .. (Size - 1) |-> v0[n \div B]]

(* C5 as stated: in any interleaving no element's step reads or writes an  *)
(* index accessed by another element's step, and the final storage equals  *)
(* that of the sequential backward expansion.                              *)
C5_AnyOrderDisjoint ==
    /\ \A e1, e2 \in Elems : e1 # e2 => Accessed(e1) \cap Accessed(e2) = {}
    /\ AllDone => pF = Expanded

(* C5 amended: the write slices of different elements are pairwise         *)
(* disjoint and a finished element e has written exactly                   *)
(* [e*block, (e+1)*block), but the index e that element e reads lies in    *)
(* the write slice of element e div block; a step that read before that    *)
(* index was written by another element holds the element's original       *)
(* value, and when every step did so the final storage equals that of the  *)
(* sequential backward expansion. With block = 1 no step reads an index    *)
(* that another step writes.                                               *)
C5_OrderedReadsSuffice ==
    /\ \A e1, e2 \in Elems : e1 # e2 => WrittenBy(e1) \cap WrittenBy(e2) = {}
    /\ \A e \in Elems : ppc[e] = "done" =>
           WrittenBy(e) = (e * block) .. ((e + 1) * block - 1)
    /\ \A e \in Elems : (ppc[e] # "idle" /\ ppc[e \div block] = "done") =>
           ReadBy(e) \subseteq WrittenBy(e \div block)
    /\ \A e \in Elems : (ppc[e] # "idle" /\ ~stale[e]) => pC[e] = v0[e]
    /\ (AllDone /\ \A e \in Elems : ~stale[e]) => pF = Expanded
    /\ (block = 1) => \A e \in Elems : ~stale[e]

C5_Witness ==
    /\ AllDone
    /\ nElems >= 2 /\ block >= 2
    /\ v0[0] # v0[1]
    /\ \A e \in Elems : ~stale[e]
    /\ pF = Expanded

(***************************************************************************)
(* Properties of INDEX4 / INDEX3 / forEachLgl, checked under SpecIndex.    *)
(***************************************************************************)
NodesXYZ == NPX * NPY * NPZ

Tuples3 == (0 .. (NPX - 1)) \X (0 .. (NPY - 1)) \X (0 .. (NPZ - 1))

Tuples4 == (0 .. (NComp - 1)) \X Tuples3

Image3 == {INDEX3(t[1], t[2], t[3]) : t \in Tuples3}

Image4 == {INDEX4(t[1], t[2][1], t[2][2], t[2][3]) : t \in Tuples4}

(* C2: INDEX4 restricted to 0<=c<NComp, 0<=i<NPX, 0<=j<NPY, 0<=k<NPZ is    *)
(* injective and its image is exactly [0, NComp*NPX*NPY*NPZ); the offsets  *)
(* the loop nest computes for one c are pairwise different and fill        *)
(* [c*NPX*NPY*NPZ, (c+1)*NPX*NPY*NPZ).                                     *)
C2_Index4Bijection ==
    /\ Image4 = 0 .. (NComp * NodesXYZ - 1)
    /\ Cardinality(Image4) = Cardinality(Tuples4)
    /\ \A a, b \in DOMAIN vis4 : a # b => vis4[a] # vis4[b]
    /\ Range(vis4) \subseteq (comp * NodesXYZ) .. ((comp + 1) * NodesXYZ - 1)
    /\ (ipc = "end") => Cardinality(Range(vis4)) = NodesXYZ

C2_Witness ==
    /\ ipc = "end"
    /\ NPX # NPY /\ NPY # NPZ /\ NPX # NPZ
    /\ NComp >= 2 /\ comp >= 1
    /\ Len(vis4) = NodesXYZ

(* C7: INDEX3 is a bijection onto [0, NPX*NPY*NPZ) with stride 1 in k, NPZ *)
(* in j and NPY*NPZ in i; INDEX4(c,i,j,k) = c*NPX*NPY*NPZ + INDEX3(i,j,k); *)
(* the forEachLgl loop nest sees the offsets 0, 1, ..., NPX*NPY*NPZ-1 in   *)
(* this order, each once.                                                  *)
C7_RowMajorOrder ==
    /\ Image3 = 0 .. (NodesXYZ - 1)
    /\ Cardinality(Image3) = Cardinality(Tuples3)
    /\ \A t \in Tuples3 :
          /\ (t[3] + 1 < NPZ) =>
                INDEX3(t[1], t[2], t[3] + 1) - INDEX3(t[1], t[2], t[3]) = 1
          /\ (t[2] + 1 < NPY) =>
                INDEX3(t[1], t[2] + 1, t[3]) - INDEX3(t[1], t[2], t[3]) = NPZ
          /\ (t[1] + 1 < NPX) =>
                INDEX3(t[1] + 1, t[2], t[3]) - INDEX3(t[1], t[2], t[3]) = NPY * NPZ
    /\ \A n \in DOMAIN vis3 : vis3[n] = n - 1
    /\ \A n \in DOMAIN vis4 : vis4[n] = comp * NodesXYZ + vis3[n]
    /\ Len(vis3) <= NodesXYZ
    /\ (ipc = "end") => Len(vis3) = NodesXYZ

C7_Witness ==
    /\ ipc = "end"
    /\ NPX = 2 /\ NPY = 3 /\ NPZ = 1
    /\ vis3 = <<0, 1, 2, 3, 4, 5>>

(***************************************************************************)
(* Properties of DPSI, checked under SpecDpsi.                             *)
(***************************************************************************)
Kronecker ==
    \A dir \in 0 .. 2 : \A a, b \in 0 .. (Order(dir) - 1) :
        psi[dir][a][b] = IF a = b THEN 1 ELSE 0

(* the factor direction dir contributes to component m of dpsi_j *)
Factor(dir, m) ==
    IF dir = m THEN dpsi[dir][bas[dir + 1]][nod[dir + 1]]
               ELSE psi[dir][bas[dir + 1]][nod[dir + 1]]

(* C8: component m of dpsi_j is the derivative-table factor of direction m *)
(* times the psi factors of the other two directions, each table indexed   *)
(* [dir][basis index][node index] within its own direction's order; with a *)
(* Kronecker-delta psi, component m is dpsi[m][basis_m][node_m] when basis *)
(* and node index coincide in the other two directions and zero otherwise. *)
C8_GradientAssembly ==
    (dpc = "done") =>
        \A m \in 0 .. 2 :
            /\ dpsi_j[m + 1] = Factor(0, m) * Factor(1, m) * Factor(2, m)
            /\ Kronecker =>
                  dpsi_j[m + 1] =
                      IF \A dir \in (0 .. 2) \ {m} : bas[dir + 1] = nod[dir + 1]
                        THEN dpsi[m][bas[m + 1]][nod[m + 1]]
                        ELSE 0

C8_Witness ==
    /\ dpc = "done"
    /\ Kronecker
    /\ NPX = 2 /\ NPY = 3 /\ NPZ = 2
    /\ bas = <<1, 2, 0>> /\ nod = <<0, 2, 0>>
    /\ dpsi_j[1] # 0 /\ dpsi_j[2] = 0 /\ dpsi_j[3] = 0

(***************************************************************************)
(* Properties of addTurbulentStress, checked under SpecTurb.               *)
(***************************************************************************)

(* the faces of the boundary conditions that are walls of U's field, as    *)
(* <<d, i, f>> in the order of AllBConditions and of each face list        *)
RECURSIVE WallFacesUpTo(_)
WallFacesUpTo(n) ==
    IF n = 0 THEN <<>>
    ELSE WallFacesUpTo(n - 1) \o
         (IF AllBConditions[n].isWall /\ AllBConditions[n].fIndex = UfIndex
            THEN [a \in 1 .. Len(AllBConditions[n].bdry) |->
                     <<n, a, AllBConditions[n].bdry[a]>>]
            ELSE <<>>)

WallFacesOfU == WallFacesUpTo(Len(AllBConditions))

WallCells == {gFO[w[3]] : w \in Range(WallFacesOfU)}

(* C10: calcEddyViscosity runs first; setWallEddyMu then calls             *)
(* applyWallFunction exactly once for each face of every boundary          *)
(* condition with isWall set and fIndex = U.fIndex and for no other face;  *)
(* only afterwards eff_mu is formed, so in both matrix terms eddy_mu of a  *)
(* wall-adjacent cell gFO[f] (and Pk there under LAUNDER) is the value the *)
(* wall function wrote, not the one of calcEddyViscosity.                  *)
C10_WallFunctionOrdering ==
    /\ (tpc = "start") => wcalls = <<>>
    /\ Len(wcalls) <= Len(WallFacesOfU)
    /\ \A n \in DOMAIN wcalls : wcalls[n] = WallFacesOfU[n]
    /\ (tpc \in {"eff", "lap", "div", "done"}) =>
          /\ wcalls = WallFacesOfU
          /\ \A c \in DOMAIN eddy_mu :
                eddy_mu[c][1] = IF c \in WallCells THEN "wall" ELSE "calcEddyMu"
          /\ (wallModel = "LAUNDER") =>
                \A c \in WallCells : Pk[c][1] = "wall" /\ Pk[c][3] = eddy_mu[c]
    /\ (tpc = "eff") => eff_mu = <<>>
    /\ (tpc \in {"lap", "div", "done"}) =>
          \A c \in DOMAIN eddy_mu : eff_mu[c] = <<"+rho*nu", eddy_mu[c]>>
    /\ (tpc = "done") =>
          M = << <<"lap", eff_mu>>, <<"div", eddy_mu>> >>

C10_Witness ==
    /\ tpc = "done"
    /\ wallModel = "LAUNDER"
    /\ Len(AllBConditions) = 2
    /\ AllBConditions[1].isWall /\ AllBConditions[1].fIndex # UfIndex
    /\ AllBConditions[1].bdry = <<0>>
    /\ AllBConditions[2].isWall /\ AllBConditions[2].fIndex = UfIndex
    /\ AllBConditions[2].bdry = <<1>>
    /\ gFO[0] # gFO[1]
    /\ wcalls = << <<2, 1, 1>> >>
    /\ M[1][2][gFO[1]][2][1] = "wall"
    /\ M[1][2][gFO[0]][2][1] = "calcEddyMu"

====
